---- MODULE Spec2Model ----
(***************************************************************************)
(* Reconciliation hooks of the VPCEndpoint controller                      *)
(* (pkg/controller/ec2/vpcendpoint): preCreate, postCreate, postObserve,   *)
(* isUpToDate, delete, filterList and their helpers, as a state machine    *)
(* over one managed resource.                                              *)
(*                                                                         *)
(* Go values are represented as follows.                                   *)
(*   *string        a string, or Nil for the nil pointer                   *)
(*   []*string      a sequence of such pointers (nil slice = <<>>)         *)
(*   string         a TLA+ string; a JSON text is the Go string literal    *)
(*   []byte(text)   the sequence of lexical tokens of the text (Bytes)     *)
(*   error          NoErr for nil, otherwise the error's message           *)
(*   *T (a struct)  a record, or NilStruct for the nil pointer             *)
(*   panic          a call that panics writes nothing and returns nothing  *)
(*                                                                         *)
(* The policy documents considered are JSON texts made of objects, arrays  *)
(* and strings; numbers, booleans and null do not occur in them.           *)
(***************************************************************************)
EXTENDS Integers, Sequences, FiniteSets, TLC

(***************************************************************************)
(* Pointers and strings                                                    *)
(***************************************************************************)

\* the nil *string
Nil == "<nil>"

\* aws.StringValue / awsclients.StringValue: the pointed-to string, "" for nil
StringValue(p) == IF p = Nil THEN "" ELSE p

\* the nil error
NoErr == "<nil error>"

(***************************************************************************)
(* JSON texts.  A text is tokenised (Bytes), decoded as encoding/json      *)
(* decodes the first value of a stream (Decode), and two decoded values    *)
(* are compared as github.com/nsf/jsondiff compares them (Compare).        *)
(***************************************************************************)

\* the policy every endpoint gets when none is declared (the Go literal)
defaultPolicy == "{\"Statement\":[{\"Action\":\"*\",\"Effect\": \"Allow\",\"Principal\":\"*\",\"Resource\":\"*\"}]}"

\* the default policy as the remote API may return it: other key order, other spacing
DefaultReordered == "{ \"Statement\" : [ { \"Resource\":\"*\", \"Principal\":\"*\", \"Effect\":\"Allow\", \"Action\":\"*\" } ] }"

\* the default policy with one more key in the statement and one more top-level key
DefaultSuperset == "{\"Version\":\"2008-10-17\",\"Statement\":[{\"Sid\":\"all\",\"Action\":\"*\",\"Effect\":\"Allow\",\"Principal\":\"*\",\"Resource\":\"*\"}]}"

\* the default policy followed by a second statement
DefaultTwoStatements == "{\"Statement\":[{\"Action\":\"*\",\"Effect\":\"Allow\",\"Principal\":\"*\",\"Resource\":\"*\"},{\"Effect\":\"Deny\"}]}"

\* the default policy without its Resource field
DefaultNoResource == "{\"Statement\":[{\"Action\":\"*\",\"Effect\":\"Allow\",\"Principal\":\"*\"}]}"

\* a policy that differs from the default in one value
DenyPolicy == "{\"Statement\":[{\"Action\":\"*\",\"Effect\":\"Deny\",\"Principal\":\"*\",\"Resource\":\"*\"}]}"

\* a text cut off in the middle: not JSON
Truncated == "{\"Statement\":[{\"Action\":\"*\""

\* a text with a value where a key must stand: not JSON
NoKey == "{[\"Statement\"]}"

\* the default policy with a stray bracket after it: not JSON
DefaultTrailing == "{\"Statement\":[{\"Action\":\"*\",\"Effect\": \"Allow\",\"Principal\":\"*\",\"Resource\":\"*\"}]}]"

\* a policy text of one blank, one of white space only, and a text with white space
\* around it
BlankText == " "
WhitespaceText == " \t\n\r\f"
PaddedObject == " {} "

lb == "{"
rb == "}"
lk == "["
rk == "]"
colon == ":"
comma == ","
space == " "
tab == "\t"
lf == "\n"
crt == "\r"
ff == "\f"
\* the white space of JSON, and that of strings.TrimSpace in the texts considered
JsonSpace == {space, tab, lf, crt}
TrimmedSpace == {space, tab, lf, crt, ff}
Punctuation == {lb, rb, lk, rk, colon, comma}

qStatement == "\"Statement\""
qAction == "\"Action\""
qEffect == "\"Effect\""
qPrincipal == "\"Principal\""
qResource == "\"Resource\""
qVersion == "\"Version\""
qSid == "\"Sid\""
qStar == "\"*\""
qAllow == "\"Allow\""
qDeny == "\"Deny\""
qAll == "\"all\""
qDate == "\"2008-10-17\""

\* []byte(text): the lexical tokens of a text, in order
Bytes(text) ==
    CASE text = "" -> <<>>
      [] text = defaultPolicy ->
           <<lb, qStatement, colon, lk, lb, qAction, colon, qStar, comma,
             qEffect, colon, space, qAllow, comma, qPrincipal, colon, qStar, comma,
             qResource, colon, qStar, rb, rk, rb>>
      [] text = DefaultReordered ->
           <<lb, space, qStatement, space, colon, space, lk, space, lb, space,
             qResource, colon, qStar, comma, space, qPrincipal, colon, qStar, comma, space,
             qEffect, colon, qAllow, comma, space, qAction, colon, qStar, space,
             rb, space, rk, space, rb>>
      [] text = DefaultSuperset ->
           <<lb, qVersion, colon, qDate, comma, qStatement, colon, lk, lb,
             qSid, colon, qAll, comma, qAction, colon, qStar, comma,
             qEffect, colon, qAllow, comma, qPrincipal, colon, qStar, comma,
             qResource, colon, qStar, rb, rk, rb>>
      [] text = DefaultTwoStatements ->
           <<lb, qStatement, colon, lk, lb, qAction, colon, qStar, comma,
             qEffect, colon, qAllow, comma, qPrincipal, colon, qStar, comma,
             qResource, colon, qStar, rb, comma, lb, qEffect, colon, qDeny, rb, rk, rb>>
      [] text = DefaultNoResource ->
           <<lb, qStatement, colon, lk, lb, qAction, colon, qStar, comma,
             qEffect, colon, qAllow, comma, qPrincipal, colon, qStar, rb, rk, rb>>
      [] text = DenyPolicy ->
           <<lb, qStatement, colon, lk, lb, qAction, colon, qStar, comma,
             qEffect, colon, qDeny, comma, qPrincipal, colon, qStar, comma,
             qResource, colon, qStar, rb, rk, rb>>
      [] text = Truncated ->
           <<lb, qStatement, colon, lk, lb, qAction, colon, qStar>>
      [] text = NoKey ->
           <<lb, lk, qStatement, rk, rb>>
      [] text = DefaultTrailing ->
           <<lb, qStatement, colon, lk, lb, qAction, colon, qStar, comma,
             qEffect, colon, space, qAllow, comma, qPrincipal, colon, qStar, comma,
             qResource, colon, qStar, rb, rk, rb, rk>>
      [] text = BlankText -> <<space>>
      [] text = WhitespaceText -> <<space, tab, lf, crt, ff>>
      [] text = PaddedObject -> <<space, lb, rb, space>>

\* the scanner skips white space between tokens
SkipSpace(toks) == SelectSeq(toks, LAMBDA t : t \notin JsonSpace)

IsString(t) == t \notin Punctuation /\ t \notin TrimmedSpace

\* decoded values: a string, an array ([]interface{}) or an object (map[string]interface{})
JString(s) == [kind |-> "string", str |-> s]
JArray(a) == [kind |-> "array", arr |-> a]
JObject(o) == [kind |-> "object", obj |-> o]

\* a syntax error
Bad == [ok |-> FALSE, val |-> JString(""), next |-> 0]
Good(v, n) == [ok |-> TRUE, val |-> v, next |-> n]

RECURSIVE DecodeValue(_, _), DecodeElements(_, _, _), DecodeMembers(_, _, _)

\* one value starting at token i: the value and the index after it
DecodeValue(t, i) ==
    IF i > Len(t) THEN Bad
    ELSE IF IsString(t[i]) THEN Good(JString(t[i]), i + 1)
    ELSE IF t[i] = lk THEN
        IF i + 1 <= Len(t) /\ t[i + 1] = rk THEN Good(JArray(<<>>), i + 2)
        ELSE DecodeElements(t, i + 1, <<>>)
    ELSE IF t[i] = lb THEN
        IF i + 1 <= Len(t) /\ t[i + 1] = rb THEN Good(JObject(<<>>), i + 2)
        ELSE DecodeMembers(t, i + 1, <<>>)
    ELSE Bad

\* the elements of an array from token i on, acc the elements decoded so far
DecodeElements(t, i, acc) ==
    LET e == DecodeValue(t, i) IN
    IF ~e.ok \/ e.next > Len(t) THEN Bad
    ELSE IF t[e.next] = rk THEN Good(JArray(Append(acc, e.val)), e.next + 1)
    ELSE IF t[e.next] = comma THEN DecodeElements(t, e.next + 1, Append(acc, e.val))
    ELSE Bad

\* the members of an object from token i on; a repeated key keeps its last value
DecodeMembers(t, i, acc) ==
    IF i + 1 > Len(t) \/ ~IsString(t[i]) \/ t[i + 1] # colon THEN Bad
    ELSE LET e == DecodeValue(t, i + 2)
             o == (t[i] :> e.val) @@ acc
         IN  IF ~e.ok \/ e.next > Len(t) THEN Bad
             ELSE IF t[e.next] = rb THEN Good(JObject(o), e.next + 1)
             ELSE IF t[e.next] = comma THEN DecodeMembers(t, e.next + 1, o)
             ELSE Bad

\* json.Decoder.Decode: the first value of the stream; what follows it is not read
Decode(bytes) == DecodeValue(SkipSpace(bytes), 1)

\* jsondiff's verdicts
FullMatch == "FullMatch"
SupersetMatch == "SupersetMatch"
NoMatch == "NoMatch"
FirstArgIsInvalidJson == "FirstArgIsInvalidJson"
SecondArgIsInvalidJson == "SecondArgIsInvalidJson"
BothArgsAreInvalidJson == "BothArgsAreInvalidJson"

\* context.result over the verdicts of the parts: NoMatch wins, then SupersetMatch
Worst(ds) ==
    IF NoMatch \in ds THEN NoMatch
    ELSE IF SupersetMatch \in ds THEN SupersetMatch
    ELSE FullMatch

RECURSIVE printDiff(_, _)

\* context.printDiff: a part only a has is "removed" (superset), one only b has is "added"
printDiff(a, b) ==
    IF a.kind # b.kind THEN NoMatch
    ELSE IF a.kind = "string" THEN (IF a.str = b.str THEN FullMatch ELSE NoMatch)
    ELSE IF a.kind = "array" THEN
        LET max == IF Len(a.arr) > Len(b.arr) THEN Len(a.arr) ELSE Len(b.arr) IN
        Worst({ IF i <= Len(a.arr) /\ i <= Len(b.arr) THEN printDiff(a.arr[i], b.arr[i])
                ELSE IF i <= Len(a.arr) THEN SupersetMatch
                ELSE NoMatch : i \in 1..max })
    ELSE
        Worst({ IF k \in DOMAIN a.obj /\ k \in DOMAIN b.obj THEN printDiff(a.obj[k], b.obj[k])
                ELSE IF k \in DOMAIN a.obj THEN SupersetMatch
                ELSE NoMatch : k \in (DOMAIN a.obj) \cup (DOMAIN b.obj) })

\* jsondiff.Compare(a, b, &jsondiff.Options{}): the verdict (the rendered diff is unused)
Compare(a, b) ==
    LET av == Decode(a)
        bv == Decode(b)
    IN  IF ~av.ok /\ ~bv.ok THEN BothArgsAreInvalidJson
        ELSE IF ~av.ok THEN FirstArgIsInvalidJson
        ELSE IF ~bv.ok THEN SecondArgIsInvalidJson
        ELSE printDiff(av.val, bv.val)

(***************************************************************************)
(* Data                                                                    *)
(***************************************************************************)

\* a nil pointer to a struct
NilStruct == [isNil |-> TRUE]

\* ec2.SecurityGroupIdentifier
Group(id) == [GroupId |-> id, GroupName |-> Nil]

\* ec2.DnsEntry
DnsEntry(name, zone) == [DnsName |-> name, HostedZoneId |-> zone]

\* ec2.VpcEndpoint, the fields the hooks read
VpcEndpoint(id, state, dns, ts, subnets, rts, groups, policy) ==
    [VpcEndpointId |-> id, State |-> state, DnsEntries |-> dns, CreationTimestamp |-> ts,
     SubnetIds |-> subnets, RouteTableIds |-> rts, Groups |-> groups,
     PolicyDocument |-> policy]

\* ec2.DescribeVpcEndpointsOutput
DescribeVpcEndpointsOutput(endpoints) == [VpcEndpoints |-> endpoints]

\* svcapitypes.VPCEndpointParameters, the fields the hooks read
VPCEndpointParameters(subnets, rts, sgs, policy) ==
    [SubnetIDs |-> subnets, RouteTableIDs |-> rts, SecurityGroupIDs |-> sgs,
     PolicyDocument |-> policy]

\* managed.ExternalCreation{} and managed.ExternalObservation{}
NoExternalCreation == [ExternalNameAssigned |-> FALSE, ConnectionDetails |-> <<>>]
NoExternalObservation ==
    [ResourceExists |-> FALSE, ResourceUpToDate |-> FALSE, ConnectionDetails |-> <<>>]

\* xpv1.ResourceCredentialsSecretEndpointKey
ResourceCredentialsSecretEndpointKey == "endpoint"

\* xpv1.Available(), Creating(), Deleting(), Unavailable(): all of type Ready
Condition(type, status, reason) == [Type |-> type, Status |-> status, Reason |-> reason]
Available == Condition("Ready", "True", "Available")
Creating == Condition("Ready", "False", "Creating")
Deleting == Condition("Ready", "False", "Deleting")
Unavailable == Condition("Ready", "False", "Unavailable")
\* the condition the generic reconciler keeps beside it
ReconcileSuccess == Condition("Synced", "True", "ReconcileSuccess")

\* VPCEndpoint.SetConditions: a condition replaces the one of its type, or is added
SetConditions(conds, c) ==
    IF \E i \in DOMAIN conds : conds[i].Type = c.Type
    THEN [i \in DOMAIN conds |-> IF conds[i].Type = c.Type THEN c ELSE conds[i]]
    ELSE Append(conds, c)

\* VPCEndpoint.GetCondition: the condition of a type, Unknown when there is none
GetCondition(conds, ct) ==
    IF \E i \in DOMAIN conds : conds[i].Type = ct
    THEN conds[CHOOSE i \in DOMAIN conds : conds[i].Type = ct]
    ELSE Condition(ct, "Unknown", "")

(***************************************************************************)
(* The hooks, as functions of their arguments                              *)
(***************************************************************************)

\* the lists are compared place by place
listComparePositional(listA, listB) ==
    IF Len(listA) # Len(listB) THEN FALSE
    ELSE \A i \in DOMAIN listA : StringValue(listA[i]) = StringValue(listB[i])

\* no length test: only "every value of listA is in listB"
listCompareNoLength(listA, listB) ==
    \A i \in DOMAIN listA : \E j \in DOMAIN listB :
        StringValue(listA[i]) = StringValue(listB[j])

\* same length, and every value of listA is found in listB
listCompareStringPtrIsSame(listA, listB) ==
    IF Len(listA) # Len(listB) THEN FALSE
    ELSE \A i \in DOMAIN listA : \E j \in DOMAIN listB :
            StringValue(listA[i]) = StringValue(listB[j])

\* the verdict of a hook that dereferences what is not there
Panic == [panicked |-> TRUE]

\* the stub that reports every resource as up to date
isUpToDateAlways(fp, obj) ==
    IF Len(obj.VpcEndpoints) = 0 THEN Panic
    ELSE [panicked |-> FALSE, match |-> TRUE, err |-> NoErr]

\* a declared policy compared like the default: a superset passes too
isUpToDateLoosePolicy(fp, obj) ==
    IF Len(obj.VpcEndpoints) = 0 THEN Panic
    ELSE
    LET ep == obj.VpcEndpoints[1]
        declaredPolicy == StringValue(fp.PolicyDocument)
        upstreamPolicy == StringValue(ep.PolicyDocument)
        other == IF declaredPolicy = "" THEN defaultPolicy ELSE declaredPolicy
        difference == Compare(Bytes(upstreamPolicy), Bytes(other))
    IN  [panicked |-> FALSE, err |-> NoErr,
         match |-> /\ listCompareStringPtrIsSame(ep.SubnetIds, fp.SubnetIDs)
                   /\ listCompareStringPtrIsSame(ep.RouteTableIds, fp.RouteTableIDs)
                   /\ Len(ep.Groups) = Len(fp.SecurityGroupIDs)
                   /\ \A i \in DOMAIN fp.SecurityGroupIDs : \E j \in DOMAIN ep.Groups :
                        StringValue(fp.SecurityGroupIDs[i]) = StringValue(ep.Groups[j].GroupId)
                   /\ difference \in {FullMatch, SupersetMatch}]

\* no declared policy compared like a declared one: only a full match passes
isUpToDateStrictDefault(fp, obj) ==
    IF Len(obj.VpcEndpoints) = 0 THEN Panic
    ELSE
    LET ep == obj.VpcEndpoints[1]
        declaredPolicy == StringValue(fp.PolicyDocument)
        upstreamPolicy == StringValue(ep.PolicyDocument)
        other == IF declaredPolicy = "" THEN defaultPolicy ELSE declaredPolicy
        difference == Compare(Bytes(upstreamPolicy), Bytes(other))
    IN  [panicked |-> FALSE, err |-> NoErr,
         match |-> /\ listCompareStringPtrIsSame(ep.SubnetIds, fp.SubnetIDs)
                   /\ listCompareStringPtrIsSame(ep.RouteTableIds, fp.RouteTableIDs)
                   /\ Len(ep.Groups) = Len(fp.SecurityGroupIDs)
                   /\ \A i \in DOMAIN fp.SecurityGroupIDs : \E j \in DOMAIN ep.Groups :
                        StringValue(fp.SecurityGroupIDs[i]) = StringValue(ep.Groups[j].GroupId)
                   /\ difference = FullMatch]

\* isUpToDate(cr, obj), fp being cr.Spec.ForProvider: the verdict and the error
isUpToDate(fp, obj) ==
    IF Len(obj.VpcEndpoints) = 0 THEN Panic
    ELSE
    LET ep == obj.VpcEndpoints[1]
        upstreamSGs == ep.Groups
        declaredPolicy == StringValue(fp.PolicyDocument)
        upstreamPolicy == StringValue(ep.PolicyDocument)
        verdict(m) == [panicked |-> FALSE, match |-> m, err |-> NoErr]
    IN  IF ~listCompareStringPtrIsSame(ep.SubnetIds, fp.SubnetIDs) THEN verdict(FALSE)
        ELSE IF ~listCompareStringPtrIsSame(ep.RouteTableIds, fp.RouteTableIDs)
        THEN verdict(FALSE)
        ELSE IF Len(upstreamSGs) # Len(fp.SecurityGroupIDs) THEN verdict(FALSE)
        ELSE IF \E i \in DOMAIN fp.SecurityGroupIDs : \A j \in DOMAIN upstreamSGs :
                    StringValue(fp.SecurityGroupIDs[i]) # StringValue(upstreamSGs[j].GroupId)
        THEN verdict(FALSE)
        ELSE IF declaredPolicy = ""
        THEN LET difference == Compare(Bytes(upstreamPolicy), Bytes(defaultPolicy))
             IN  verdict(difference = FullMatch \/ difference = SupersetMatch)
        ELSE LET difference == Compare(Bytes(upstreamPolicy), Bytes(declaredPolicy))
             IN  verdict(difference = FullMatch)

\* the loop of filterList from element i on: it stops at the first element whose
\* identifier is the external name
RECURSIVE scanEndpoints(_, _, _)
scanEndpoints(connectionIdentifier, endpoints, i) ==
    IF i > Len(endpoints) THEN <<>>
    ELSE IF StringValue(endpoints[i].VpcEndpointId) = StringValue(connectionIdentifier)
    THEN <<endpoints[i]>>
    ELSE scanEndpoints(connectionIdentifier, endpoints, i + 1)

\* the loop without its break: every element with the identifier is kept
filterListAll(name, obj) ==
    DescribeVpcEndpointsOutput(
        SelectSeq(obj.VpcEndpoints, LAMBDA e : StringValue(e.VpcEndpointId) = name))

\* filterList(cr, obj), name being meta.GetExternalName(cr): a new response
filterList(name, obj) ==
    DescribeVpcEndpointsOutput(scanEndpoints(name, obj.VpcEndpoints, 1))

\* generateVPCEndpointSDK: the status record of an observed endpoint; the creation
\* timestamp is dereferenced first, so an endpoint without one makes the call panic
generateVPCEndpointSDK(vpcEndpoint) ==
    IF vpcEndpoint.CreationTimestamp = Nil THEN Panic
    ELSE [CreationTimestamp |-> [Time |-> vpcEndpoint.CreationTimestamp],
          DNSEntries |-> [i \in DOMAIN vpcEndpoint.DnsEntries |->
                             [DNSName |-> vpcEndpoint.DnsEntries[i].DnsName,
                              HostedZoneID |-> vpcEndpoint.DnsEntries[i].HostedZoneId]],
          State |-> vpcEndpoint.State]

\* the identifier is taken whatever the call returned
postCreateNoCheck(name, obj, cre, err) ==
    [externalName |-> IF obj.VpcEndpoint = NilStruct THEN ""
                      ELSE StringValue(obj.VpcEndpoint.VpcEndpointId),
     cre |-> [cre EXCEPT !.ExternalNameAssigned = TRUE], err |-> err]

\* the identifier is taken, the assignment is not reported
postCreateNoFlag(name, obj, cre, err) ==
    IF err # NoErr \/ obj.VpcEndpoint = NilStruct
    THEN [externalName |-> name, cre |-> NoExternalCreation, err |-> err]
    ELSE [externalName |-> StringValue(obj.VpcEndpoint.VpcEndpointId),
          cre |-> cre, err |-> NoErr]

\* postCreate(ctx, cr, obj, cre, err), name being the external name of cr before
\* the call: the external name after it, and the two results
postCreate(name, obj, cre, err) ==
    IF err # NoErr \/ obj.VpcEndpoint = NilStruct
    THEN [externalName |-> name, cre |-> NoExternalCreation, err |-> err]
    ELSE [externalName |-> StringValue(obj.VpcEndpoint.VpcEndpointId),
          cre |-> [cre EXCEPT !.ExternalNameAssigned = TRUE], err |-> NoErr]

\* "deleted" taken for "deleting"
stateConditionsSwapped(conds, state) ==
    CASE state = "available" -> SetConditions(conds, Available)
      [] state \in {"pending", "pending-acceptance"} -> SetConditions(conds, Creating)
      [] state = "deleted" -> SetConditions(conds, Deleting)
      [] state = "deleting" -> SetConditions(conds, Unavailable)
      [] OTHER -> conds

\* the switch of postObserve: the conditions after it
stateConditions(conds, state) ==
    CASE state = "available" -> SetConditions(conds, Available)
      [] state \in {"pending", "pending-acceptance"} -> SetConditions(conds, Creating)
      [] state = "deleted" -> SetConditions(conds, Unavailable)
      [] state = "deleting" -> SetConditions(conds, Deleting)
      [] OTHER -> conds

\* the status is written before the error is looked at
postObserveEager(st, resp, obs, err) ==
    IF resp = NilStruct \/ Len(resp.VpcEndpoints) = 0 THEN Panic
    ELSE IF generateVPCEndpointSDK(resp.VpcEndpoints[1]) = Panic THEN Panic
    ELSE [panicked |-> FALSE,
          AtProvider |-> generateVPCEndpointSDK(resp.VpcEndpoints[1]),
          Conditions |-> stateConditions(st.Conditions,
                                         StringValue(resp.VpcEndpoints[1].State)),
          obs |-> IF err # NoErr THEN NoExternalObservation ELSE obs,
          err |-> err]

\* a Describe error marks the resource unavailable
postObserveUnavailableOnError(st, resp, obs, err) ==
    IF err # NoErr
    THEN [panicked |-> FALSE, AtProvider |-> st.AtProvider,
          Conditions |-> SetConditions(st.Conditions, Unavailable),
          obs |-> NoExternalObservation, err |-> err]
    ELSE IF resp = NilStruct \/ Len(resp.VpcEndpoints) = 0 THEN Panic
    ELSE LET ep == resp.VpcEndpoints[1]
             details ==
                 IF Len(ep.DnsEntries) # 0 /\ StringValue(ep.DnsEntries[1].DnsName) # ""
                 THEN (ResourceCredentialsSecretEndpointKey
                          :> StringValue(ep.DnsEntries[1].DnsName))
                 ELSE obs.ConnectionDetails
         IN  IF generateVPCEndpointSDK(ep) = Panic THEN Panic
             ELSE [panicked |-> FALSE,
                   AtProvider |-> generateVPCEndpointSDK(ep),
                   Conditions |-> stateConditions(st.Conditions, StringValue(ep.State)),
                   obs |-> [obs EXCEPT !.ConnectionDetails = details],
                   err |-> NoErr]

\* the DNS entries of the last observation are kept when none are observed
postObserveMerges(st, resp, obs, err) ==
    IF err # NoErr
    THEN [panicked |-> FALSE, AtProvider |-> st.AtProvider, Conditions |-> st.Conditions,
          obs |-> NoExternalObservation, err |-> err]
    ELSE IF resp = NilStruct \/ Len(resp.VpcEndpoints) = 0 THEN Panic
    ELSE LET ep == resp.VpcEndpoints[1]
             fresh == generateVPCEndpointSDK(ep)
             details ==
                 IF Len(ep.DnsEntries) # 0 /\ StringValue(ep.DnsEntries[1].DnsName) # ""
                 THEN (ResourceCredentialsSecretEndpointKey
                          :> StringValue(ep.DnsEntries[1].DnsName))
                 ELSE obs.ConnectionDetails
         IN  IF generateVPCEndpointSDK(ep) = Panic THEN Panic
             ELSE [panicked |-> FALSE,
                   AtProvider |->
                       IF st.AtProvider # NilStruct /\ Len(ep.DnsEntries) = 0
                       THEN [fresh EXCEPT !.DNSEntries = st.AtProvider.DNSEntries]
                       ELSE fresh,
                   Conditions |-> stateConditions(st.Conditions, StringValue(ep.State)),
                   obs |-> [obs EXCEPT !.ConnectionDetails = details],
                   err |-> NoErr]

\* without a named DNS entry the connection details are emptied
postObserveClearsDetails(st, resp, obs, err) ==
    IF err # NoErr
    THEN [panicked |-> FALSE, AtProvider |-> st.AtProvider, Conditions |-> st.Conditions,
          obs |-> NoExternalObservation, err |-> err]
    ELSE IF resp = NilStruct \/ Len(resp.VpcEndpoints) = 0 THEN Panic
    ELSE LET ep == resp.VpcEndpoints[1]
             details ==
                 IF Len(ep.DnsEntries) # 0 /\ StringValue(ep.DnsEntries[1].DnsName) # ""
                 THEN (ResourceCredentialsSecretEndpointKey
                          :> StringValue(ep.DnsEntries[1].DnsName))
                 ELSE <<>>
         IN  IF generateVPCEndpointSDK(ep) = Panic THEN Panic
             ELSE [panicked |-> FALSE,
                   AtProvider |-> generateVPCEndpointSDK(ep),
                   Conditions |-> stateConditions(st.Conditions, StringValue(ep.State)),
                   obs |-> [obs EXCEPT !.ConnectionDetails = details],
                   err |-> NoErr]

\* postObserve(ctx, cr, resp, obs, err), st being the status of cr before the call:
\* the status after it, and the two results
postObserve(st, resp, obs, err) ==
    IF err # NoErr
    THEN [panicked |-> FALSE, AtProvider |-> st.AtProvider, Conditions |-> st.Conditions,
          obs |-> NoExternalObservation, err |-> err]
    ELSE IF resp = NilStruct \/ Len(resp.VpcEndpoints) = 0 THEN Panic
    ELSE LET ep == resp.VpcEndpoints[1]
             details ==
                 IF Len(ep.DnsEntries) # 0 /\ StringValue(ep.DnsEntries[1].DnsName) # ""
                 THEN (ResourceCredentialsSecretEndpointKey
                          :> StringValue(ep.DnsEntries[1].DnsName))
                 ELSE obs.ConnectionDetails
         IN  IF generateVPCEndpointSDK(ep) = Panic THEN Panic
             ELSE [panicked |-> FALSE,
                   AtProvider |-> generateVPCEndpointSDK(ep),
                   Conditions |-> stateConditions(st.Conditions, StringValue(ep.State)),
                   obs |-> [obs EXCEPT !.ConnectionDetails = details],
                   err |-> NoErr]

\* a Go slice that may be nil: the create request tells a nil list from an empty one
NilSlice == [isNil |-> TRUE, elems |-> <<>>]
Slice(elems) == [isNil |-> FALSE, elems |-> elems]

\* ec2.TagSpecification with one tag
TagSpecification(resType, key, value) ==
    [ResourceType |-> resType, Tags |-> <<[Key |-> key, Value |-> value]>>]

\* the tag specification takes the place of those on the request
preCreateReplacesTags(name, fp, obj) ==
    [SecurityGroupIds |-> IF Len(fp.SecurityGroupIDs) = 0 THEN NilSlice
                          ELSE obj.SecurityGroupIds,
     RouteTableIds |-> IF Len(fp.RouteTableIDs) = 0 THEN NilSlice ELSE obj.RouteTableIds,
     SubnetIds |-> IF Len(fp.SubnetIDs) = 0 THEN NilSlice ELSE obj.SubnetIds,
     TagSpecifications |-> <<TagSpecification("vpc-endpoint", "Name", name)>>]

\* the lists of the request are left alone, empty or not
preCreateKeepsLists(name, fp, obj) ==
    [SecurityGroupIds |-> obj.SecurityGroupIds,
     RouteTableIds |-> obj.RouteTableIds,
     SubnetIds |-> obj.SubnetIds,
     TagSpecifications |->
        Append(obj.TagSpecifications, TagSpecification("vpc-endpoint", "Name", name))]

\* preCreate(ctx, cr, obj), name and fp being the external name and the declared
\* parameters of cr: the create request after the call (the error is always nil)
preCreate(name, fp, obj) ==
    LET resType == "vpc-endpoint"
        key == "Name"
        value == name
        spec == TagSpecification(resType, key, value)
    IN  [SecurityGroupIds |-> IF Len(fp.SecurityGroupIDs) = 0 THEN NilSlice
                              ELSE obj.SecurityGroupIds,
         RouteTableIds |-> IF Len(fp.RouteTableIDs) = 0 THEN NilSlice
                           ELSE obj.RouteTableIds,
         SubnetIds |-> IF Len(fp.SubnetIDs) = 0 THEN NilSlice ELSE obj.SubnetIds,
         TagSpecifications |-> Append(obj.TagSpecifications, spec)]

\* errors.New(errUnexpectedObject)
errUnexpectedObject == "managed resource is not an VPCEndpoint resource"

\* the error of the client is dropped
deleteSwallowsError(kind, name, clientErr) ==
    IF kind # "VPCEndpoint"
    THEN [requests |-> <<>>, err |-> errUnexpectedObject]
    ELSE [requests |-> <<[VpcEndpointIds |-> <<name>>]>>, err |-> NoErr]

\* custom.delete(ctx, mg), kind being the type of mg, name its external name and
\* clientErr what DeleteVpcEndpoints returns if called: the requests sent, the error
delete(kind, name, clientErr) ==
    IF kind # "VPCEndpoint"
    THEN [requests |-> <<>>, err |-> errUnexpectedObject]
    ELSE LET externalName == name
             deleteInput == [VpcEndpointIds |-> <<externalName>>]
         IN  [requests |-> <<deleteInput>>, err |-> clientErr]

\* strings.TrimSpace: the text without its leading and trailing white space
RECURSIVE TrimLeft(_), TrimRight(_)
TrimLeft(toks) ==
    IF toks # <<>> /\ Head(toks) \in TrimmedSpace THEN TrimLeft(Tail(toks)) ELSE toks
TrimRight(toks) ==
    IF toks # <<>> /\ toks[Len(toks)] \in TrimmedSpace
    THEN TrimRight(SubSeq(toks, 1, Len(toks) - 1))
    ELSE toks
TrimSpace(toks) == TrimRight(TrimLeft(toks))

\* ec2.ModifyVpcEndpointInput, the fields formatModifyVpcEndpointInput writes
ModifyVpcEndpointInput(addSG, removeSG, addRT, removeRT, addSN, removeSN, policy) ==
    [AddSecurityGroupIds |-> addSG, RemoveSecurityGroupIds |-> removeSG,
     AddRouteTableIds |-> addRT, RemoveRouteTableIds |-> removeRT,
     AddSubnetIds |-> addSN, RemoveSubnetIds |-> removeSN,
     PolicyDocument |-> policy]

\* the policy is dropped only when it is nil or the empty text
formatModifyNoTrim(obj) ==
    LET shaped(list) == IF Len(list.elems) = 0 THEN NilSlice ELSE list
    IN  ModifyVpcEndpointInput(
            shaped(obj.AddSecurityGroupIds), shaped(obj.RemoveSecurityGroupIds),
            shaped(obj.AddRouteTableIds), shaped(obj.RemoveRouteTableIds),
            shaped(obj.AddSubnetIds), shaped(obj.RemoveSubnetIds),
            IF StringValue(obj.PolicyDocument) = "" THEN Nil ELSE obj.PolicyDocument)

\* formatModifyVpcEndpointInput(obj): the request after the call
formatModifyVpcEndpointInput(obj) ==
    LET shaped(list) == IF Len(list.elems) = 0 THEN NilSlice ELSE list
    IN  ModifyVpcEndpointInput(
            shaped(obj.AddSecurityGroupIds), shaped(obj.RemoveSecurityGroupIds),
            shaped(obj.AddRouteTableIds), shaped(obj.RemoveRouteTableIds),
            shaped(obj.AddSubnetIds), shaped(obj.RemoveSubnetIds),
            IF TrimSpace(Bytes(StringValue(obj.PolicyDocument))) = Bytes("")
            THEN Nil ELSE obj.PolicyDocument)

(***************************************************************************)
(* Bounds and input sets                                                   *)
(***************************************************************************)

\* longest Describe response handed to filterList
MaxEndpoints == 2
\* longest identifier lists compared by listCompareStringPtrIsSame on its own
MaxListLen == 2
\* longest declared and observed subnet lists handed to isUpToDate
MaxSubnets == 2

\* all sequences over S of length at most n
RECURSIVE SeqsUpTo(_, _)
SeqsUpTo(S, n) ==
    IF n = 0 THEN {<<>>}
    ELSE LET shorter == SeqsUpTo(S, n - 1)
         IN  shorter \cup {Append(q, e) : q \in {r \in shorter : Len(r) = n - 1}, e \in S}

\* what the External Client may fail with
Errors == {"RequestError: send request failed", "UnauthorizedOperation"}
MaybeErr == {NoErr} \cup Errors

Timestamp1 == "2021-06-01T10:00:00Z"
Timestamp2 == "2021-06-02T12:30:00Z"
Dns1 == DnsEntry("vpce-1.ec2.vpce.amazonaws.com", "Z1")
Dns2 == DnsEntry("vpce-1-az1.ec2.vpce.amazonaws.com", "Z2")

\* the lifecycle states of an endpoint that postObserve knows
LifecycleStates == {"available", "pending", "pending-acceptance", "deleting", "deleted"}

\* an endpoint as Describe returns it for the hooks that do not compare lists
Observed(id, state, dns, ts) ==
    VpcEndpoint(id, state, dns, ts, <<"subnet-1">>, <<>>, <<>>, defaultPolicy)

\* endpoints handed to postObserve: every state, then every shape of DNS entries,
\* then the timestamps
ObservedEndpoints ==
    {Observed("vpce-1", s, <<Dns1>>, Timestamp1) :
        s \in LifecycleStates \cup {"rejected", Nil}}
    \cup {Observed("vpce-1", "available", d, Timestamp1) :
            d \in {<<>>, <<Dns2, Dns1>>, <<DnsEntry("", "Z1")>>, <<DnsEntry(Nil, Nil)>>}}
    \cup {Observed("vpce-1", "pending", <<>>, ts) : ts \in {Timestamp2, Nil}}

\* responses handed to postObserve: an empty one, one endpoint
ObserveResponses ==
    {DescribeVpcEndpointsOutput(<<>>)}
    \cup {DescribeVpcEndpointsOutput(<<e>>) : e \in ObservedEndpoints}

\* what Describe hands back beside an error: nothing, or a response
FailedResponses ==
    {NilStruct,
     DescribeVpcEndpointsOutput(<<Observed("vpce-1", "deleted", <<Dns2>>, Timestamp2)>>)}

\* the observation handed to postObserve: without connection details, or with some
Observations ==
    {[ResourceExists |-> TRUE, ResourceUpToDate |-> TRUE, ConnectionDetails |-> <<>>],
     [ResourceExists |-> TRUE, ResourceUpToDate |-> FALSE,
      ConnectionDetails |-> (ResourceCredentialsSecretEndpointKey :> "stale.example.com")]}

\* endpoints handed to filterList: two with one identifier, one with another, one with none
FilterEndpoints ==
    {Observed("vpce-1", "available", <<>>, Timestamp1),
     Observed("vpce-1", "pending", <<>>, Timestamp1),
     Observed("vpce-2", "available", <<>>, Timestamp1),
     Observed(Nil, "available", <<>>, Timestamp1)}

FilterResponses ==
    {DescribeVpcEndpointsOutput(q) : q \in SeqsUpTo(FilterEndpoints, MaxEndpoints)}

\* what Create hands back beside an error
FailedOutputs == {[VpcEndpoint |-> NilStruct], [VpcEndpoint |-> [VpcEndpointId |-> "vpce-2"]]}

\* the create responses: no payload, a payload with an identifier, one without
CreateOutputs ==
    {[VpcEndpoint |-> NilStruct]}
    \cup {[VpcEndpoint |-> [VpcEndpointId |-> id]] : id \in {"vpce-1", "vpce-2", Nil}}

\* the creation result the caller hands to postCreate
Creations ==
    {NoExternalCreation,
     [ExternalNameAssigned |-> FALSE, ConnectionDetails |-> ("username" :> "admin")]}

\* the declared parameters of the resource the hooks are run on
HookParameters ==
    {VPCEndpointParameters(<<"subnet-1">>, <<>>, <<>>, Nil),
     VPCEndpointParameters(<<"subnet-2", "subnet-1">>, <<"rtb-1">>, <<"sg-1">>, DenyPolicy)}

\* the create requests handed to preCreate: each list as declared, or nil
CreateInputs(fp) ==
    {[SecurityGroupIds |-> Slice(fp.SecurityGroupIDs),
      RouteTableIds |-> Slice(fp.RouteTableIDs),
      SubnetIds |-> Slice(fp.SubnetIDs),
      TagSpecifications |-> tags] :
        tags \in {<<>>, <<TagSpecification("vpc-endpoint", "team", "net")>>}}
    \cup {[SecurityGroupIds |-> NilSlice, RouteTableIds |-> NilSlice,
           SubnetIds |-> NilSlice, TagSpecifications |-> <<>>]}

\* the responses handed to isUpToDate among the other hooks
HookResponses ==
    {DescribeVpcEndpointsOutput(<<>>),
     DescribeVpcEndpointsOutput(<<Observed("vpce-1", "available", <<>>, Timestamp1)>>),
     DescribeVpcEndpointsOutput(
        <<VpcEndpoint("vpce-1", "available", <<>>, Timestamp1, <<"subnet-1", "subnet-2">>,
                      <<"rtb-1">>, <<Group("sg-1")>>, DenyPolicy)>>),
     DescribeVpcEndpointsOutput(
        <<VpcEndpoint("vpce-1", "available", <<>>, Timestamp1, <<"subnet-1", "subnet-2">>,
                      <<"rtb-1">>, <<Group("sg-2")>>, DenyPolicy)>>)}

\* identifier lists handed to listCompareStringPtrIsSame on its own: repeated
\* values, nil pointers and empty strings included
IdLists == SeqsUpTo({"subnet-1", "subnet-2", Nil, ""}, MaxListLen)

\* the lists and policies handed to isUpToDate on its own
SubnetLists == SeqsUpTo({"subnet-1", "subnet-2"}, MaxSubnets)
RouteTableLists == {<<>>, <<"rtb-1">>}
SecurityGroupLists == {<<>>, <<"sg-1">>, <<"sg-2", "sg-1">>, <<"sg-1", "sg-3">>}
DeclaredPolicies == {Nil, "", defaultPolicy, DenyPolicy, Truncated}
ObservedPolicies ==
    {Nil, defaultPolicy, DefaultReordered, DefaultSuperset, DefaultTwoStatements,
     DefaultNoResource, DenyPolicy, Truncated, NoKey, DefaultTrailing}

DiffParameters ==
    {VPCEndpointParameters(sn, rt, sg, p) :
        sn \in SubnetLists, rt \in RouteTableLists, sg \in SecurityGroupLists,
        p \in DeclaredPolicies}

DiffResponses ==
    {DescribeVpcEndpointsOutput(
        <<VpcEndpoint("vpce-1", "available", <<>>, Timestamp1, sn, rt,
                      [i \in DOMAIN sg |-> Group(sg[i])], p)>>) :
        sn \in SubnetLists, rt \in RouteTableLists, sg \in SecurityGroupLists,
        p \in ObservedPolicies}

\* the declared parameters handed to preCreate on its own: each list empty or not
CreateParameters ==
    {VPCEndpointParameters(sn, rt, sg, Nil) :
        sn \in {<<>>, <<"subnet-1", "subnet-2">>}, rt \in {<<>>, <<"rtb-1">>},
        sg \in {<<>>, <<"sg-1">>}}

\* a list of the create request: nil, empty, as declared, or another one
RequestLists(declared) == {NilSlice, Slice(<<>>), Slice(declared), Slice(<<"other-1">>)}

\* the tag specifications already on a create request
RequestTags ==
    {<<>>, <<TagSpecification("vpc-endpoint", "team", "net")>>,
     <<TagSpecification("vpc-endpoint", "Name", "old-name"),
       TagSpecification("vpc-endpoint", "team", "net")>>}

\* the create requests handed to preCreate on its own
CreateRequests(fp) ==
    {[SecurityGroupIds |-> sg, RouteTableIds |-> rt, SubnetIds |-> sn,
      TagSpecifications |-> tags] :
        sg \in RequestLists(fp.SecurityGroupIDs), rt \in RequestLists(fp.RouteTableIDs),
        sn \in RequestLists(fp.SubnetIDs), tags \in RequestTags}

\* a delta of an update request: nil, empty, or some identifiers
DeltaLists == {NilSlice, Slice(<<>>), Slice(<<"id-1">>)}
SubnetDeltas == DeltaLists \cup {Slice(<<Nil, "subnet-1">>)}

\* the policy of an update request: none, empty, white space, a document
ModifyPolicies ==
    {Nil, "", BlankText, WhitespaceText, PaddedObject, defaultPolicy, DefaultReordered}

\* the update requests handed to formatModifyVpcEndpointInput
ModifyRequests ==
    {ModifyVpcEndpointInput(addSG, removeSG, addRT, removeRT, addSN, removeSN, policy) :
        addSG \in DeltaLists, removeSG \in DeltaLists, addRT \in DeltaLists,
        removeRT \in DeltaLists, addSN \in SubnetDeltas, removeSN \in DeltaLists,
        policy \in ModifyPolicies}

(***************************************************************************)
(* State                                                                   *)
(***************************************************************************)

VARIABLES
    externalName,   \* the external-name annotation of cr ("" when there is none)
    ForProvider,    \* cr.Spec.ForProvider
    AtProvider,     \* cr.Status.AtProvider.VPCEndpoint (NilStruct before the first write)
    Conditions,     \* cr.Status.Conditions
    assigned,       \* whether postCreate has set a non-empty external name
    call            \* the last hook call: its arguments and its results

vars == <<externalName, ForProvider, AtProvider, Conditions, assigned, call>>

\* the parts of cr that postObserve writes
Status == [AtProvider |-> AtProvider, Conditions |-> Conditions]

Init ==
    /\ externalName \in {"", "my-endpoint"}
    /\ ForProvider \in HookParameters
    /\ AtProvider = NilStruct
    /\ Conditions \in {<<>>, <<ReconcileSuccess>>}
    /\ assigned = FALSE
    /\ call = [op |-> "none"]

(***************************************************************************)
(* The hooks, as steps of the resource                                     *)
(***************************************************************************)

PreCreate(obj) ==
    /\ call' = [op |-> "preCreate", name |-> externalName, obj |-> obj,
                request |-> preCreate(externalName, ForProvider, obj), err |-> NoErr]
    /\ UNCHANGED <<externalName, ForProvider, AtProvider, Conditions, assigned>>

PostCreate(obj, cre, err) ==
    LET r == postCreate(externalName, obj, cre, err) IN
    /\ externalName' = r.externalName
    /\ assigned' = (assigned \/ (r.cre.ExternalNameAssigned /\ r.externalName # ""))
    /\ call' = [op |-> "postCreate", obj |-> obj, creIn |-> cre, errIn |-> err,
                nameBefore |-> externalName, cre |-> r.cre, err |-> r.err]
    /\ UNCHANGED <<ForProvider, AtProvider, Conditions>>

PostObserve(resp, obs, err) ==
    LET r == postObserve(Status, resp, obs, err) IN
    /\ AtProvider' = IF r.panicked THEN AtProvider ELSE r.AtProvider
    /\ Conditions' = IF r.panicked THEN Conditions ELSE r.Conditions
    /\ call' = IF r.panicked
               THEN [op |-> "postObserve", resp |-> resp, obsIn |-> obs, errIn |-> err,
                     before |-> Status, panicked |-> TRUE]
               ELSE [op |-> "postObserve", resp |-> resp, obsIn |-> obs, errIn |-> err,
                     before |-> Status, panicked |-> FALSE, obs |-> r.obs, err |-> r.err]
    /\ UNCHANGED <<externalName, ForProvider, assigned>>

FilterList(obj) ==
    /\ call' = [op |-> "filterList", name |-> externalName, obj |-> obj,
                resp |-> filterList(externalName, obj)]
    /\ UNCHANGED <<externalName, ForProvider, AtProvider, Conditions, assigned>>

IsUpToDate(obj) ==
    LET r == isUpToDate(ForProvider, obj) IN
    /\ call' = IF r.panicked
               THEN [op |-> "isUpToDate", obj |-> obj, panicked |-> TRUE]
               ELSE [op |-> "isUpToDate", obj |-> obj, panicked |-> FALSE,
                     match |-> r.match, err |-> r.err]
    /\ UNCHANGED <<externalName, ForProvider, AtProvider, Conditions, assigned>>

Delete(kind, clientErr) ==
    LET r == delete(kind, externalName, clientErr) IN
    /\ call' = [op |-> "delete", kind |-> kind, clientErr |-> clientErr,
                requests |-> r.requests, err |-> r.err]
    /\ UNCHANGED <<externalName, ForProvider, AtProvider, Conditions, assigned>>

\* the Observe pass of the generic reconciler after a successful Describe: the
\* response narrowed by filterList is handed to postObserve, whatever it holds
ObservePass(obs) ==
    /\ call.op = "filterList"
    /\ PostObserve(call.resp, obs, NoErr)

Next ==
    \/ \E obj \in CreateInputs(ForProvider) : PreCreate(obj)
    \/ \E obj \in CreateOutputs, cre \in Creations : PostCreate(obj, cre, NoErr)
    \/ \E obj \in FailedOutputs, cre \in Creations, err \in Errors :
            PostCreate(obj, cre, err)
    \/ \E resp \in ObserveResponses, obs \in Observations : PostObserve(resp, obs, NoErr)
    \/ \E resp \in FailedResponses, obs \in Observations, err \in Errors :
            PostObserve(resp, obs, err)
    \/ \E obj \in FilterResponses : FilterList(obj)
    \/ \E obs \in Observations : ObservePass(obs)
    \/ \E obj \in HookResponses : IsUpToDate(obj)
    \/ \E clientErr \in MaybeErr : Delete("VPCEndpoint", clientErr)
    \/ Delete("VPCPeeringConnection", NoErr)

Spec == Init /\ [][Next]_vars

(***************************************************************************)
(* isUpToDate on its own: a declared resource and a Describe response are  *)
(* drawn, and the reconciler asks for the verdict.                         *)
(***************************************************************************)

InitDiff ==
    /\ externalName = "vpce-1"
    /\ ForProvider \in DiffParameters
    /\ AtProvider = NilStruct
    /\ Conditions = <<>>
    /\ assigned = TRUE
    /\ \E obj \in DiffResponses : call = [op |-> "DescribeVpcEndpoints", resp |-> obj]

NextDiff == call.op = "DescribeVpcEndpoints" /\ IsUpToDate(call.resp)

SpecDiff == InitDiff /\ [][NextDiff]_vars

(***************************************************************************)
(* listCompareStringPtrIsSame on its own                                   *)
(***************************************************************************)

ListCompare(listA, listB) ==
    /\ call' = [op |-> "listCompareStringPtrIsSame", listA |-> listA, listB |-> listB,
                same |-> listCompareStringPtrIsSame(listA, listB)]
    /\ UNCHANGED <<externalName, ForProvider, AtProvider, Conditions, assigned>>

InitList ==
    /\ externalName = ""
    /\ ForProvider = VPCEndpointParameters(<<>>, <<>>, <<>>, Nil)
    /\ AtProvider = NilStruct
    /\ Conditions = <<>>
    /\ assigned = FALSE
    /\ \E listA \in IdLists, listB \in IdLists :
            call = [op |-> "lists", listA |-> listA, listB |-> listB]

NextList == call.op = "lists" /\ ListCompare(call.listA, call.listB)

SpecList == InitList /\ [][NextList]_vars

(***************************************************************************)
(* preCreate on its own: a declared resource and a create request are      *)
(* drawn, and the request is shaped.                                       *)
(***************************************************************************)

InitCreate ==
    /\ externalName \in {"", "my-endpoint", "vpce-1"}
    /\ ForProvider \in CreateParameters
    /\ AtProvider = NilStruct
    /\ Conditions = <<>>
    /\ assigned = FALSE
    /\ \E obj \in CreateRequests(ForProvider) :
            call = [op |-> "CreateVpcEndpointInput", obj |-> obj]

NextCreate == call.op = "CreateVpcEndpointInput" /\ PreCreate(call.obj)

SpecCreate == InitCreate /\ [][NextCreate]_vars

(***************************************************************************)
(* formatModifyVpcEndpointInput on its own: an update request is drawn and *)
(* shaped, and the shaped request is shaped again.                         *)
(***************************************************************************)

FormatModify(obj) ==
    LET once == formatModifyVpcEndpointInput(obj) IN
    /\ call' = [op |-> "formatModifyVpcEndpointInput", obj |-> obj, request |-> once,
                again |-> formatModifyVpcEndpointInput(once)]
    /\ UNCHANGED <<externalName, ForProvider, AtProvider, Conditions, assigned>>

InitModify ==
    /\ externalName = "vpce-1"
    /\ ForProvider = VPCEndpointParameters(<<>>, <<>>, <<>>, Nil)
    /\ AtProvider = NilStruct
    /\ Conditions = <<>>
    /\ assigned = TRUE
    /\ \E obj \in ModifyRequests : call = [op |-> "ModifyVpcEndpointInput", obj |-> obj]

NextModify == call.op = "ModifyVpcEndpointInput" /\ FormatModify(call.obj)

SpecModify == InitModify /\ [][NextModify]_vars

(***************************************************************************)
(* Properties                                                              *)
(***************************************************************************)

\* the values of a list of pointers, and how often a value occurs in it
Values(list) == {StringValue(list[i]) : i \in DOMAIN list}
Count(list, v) == Cardinality({i \in DOMAIN list : StringValue(list[i]) = v})
SameMultiset(listA, listB) ==
    \A v \in Values(listA) \cup Values(listB) : Count(listA, v) = Count(listB, v)
Distinct(list) == Cardinality(Values(list)) = Len(list)

\* set equality of two identifier lists of one length
SetEqual(listA, listB) == Len(listA) = Len(listB) /\ Values(listA) = Values(listB)
\* one length, and no observed identifier that is not declared
ObservedAmongDeclared(observed, declared) ==
    Len(observed) = Len(declared) /\ Values(observed) \subseteq Values(declared)
\* one length, and no declared group that is not observed
DeclaredAmongGroups(declared, groups) ==
    /\ Len(declared) = Len(groups)
    /\ Values(declared) \subseteq {StringValue(groups[j].GroupId) : j \in DOMAIN groups}

\* a decoded JSON value as the set of its nodes: the path to the node, its kind and,
\* for a string, its value.  Two values are structurally equal iff they have the
\* same nodes; a includes b iff every node of b is a node of a.
RECURSIVE Nodes(_, _)
Nodes(v, path) ==
    IF v.kind = "string" THEN {<<path, "string", v.str>>}
    ELSE IF v.kind = "array"
    THEN {<<path, "array", "">>}
         \cup UNION {Nodes(v.arr[i], Append(path, [index |-> i])) : i \in DOMAIN v.arr}
    ELSE {<<path, "object", "">>}
         \cup UNION {Nodes(v.obj[k], Append(path, [key |-> k])) : k \in DOMAIN v.obj}

IsJson(text) == Decode(Bytes(text)).ok
NodesOf(text) == Nodes(Decode(Bytes(text)).val, <<>>)
SameJson(a, b) == IsJson(a) /\ IsJson(b) /\ NodesOf(a) = NodesOf(b)
IncludesJson(a, b) == IsJson(a) /\ IsJson(b) /\ NodesOf(b) \subseteq NodesOf(a)

\* the policy check: a declared policy must be matched exactly, the default included
PolicyCheck(declared, observed) ==
    IF StringValue(declared) = ""
    THEN IncludesJson(StringValue(observed), defaultPolicy)
    ELSE SameJson(StringValue(observed), StringValue(declared))

\* a verdict of isUpToDate on a response with an endpoint
Judged == call.op = "isUpToDate" /\ ~call.panicked
JudgedEndpoint == call.obj.VpcEndpoints[1]
ListsPass ==
    /\ ObservedAmongDeclared(JudgedEndpoint.SubnetIds, ForProvider.SubnetIDs)
    /\ ObservedAmongDeclared(JudgedEndpoint.RouteTableIds, ForProvider.RouteTableIDs)
    /\ DeclaredAmongGroups(ForProvider.SecurityGroupIDs, JudgedEndpoint.Groups)

\* C1 (as claimed): once postCreate has set a non-empty external name, no later hook
\* call changes or clears it.
C1_IdentifierNeverReassigned ==
    [][assigned => externalName' = externalName]_vars

\* C2 (as claimed): isUpToDate returns (true, nil) exactly when the subnets are
\* set-equal, the route tables are set-equal, the security groups have one cardinality
\* with every declared one observed, and the policy check passes; else (false, nil).
C2_VerdictIsSetEquality ==
    Judged =>
        /\ call.err = NoErr
        /\ call.match =
            (/\ SetEqual(JudgedEndpoint.SubnetIds, ForProvider.SubnetIDs)
             /\ SetEqual(JudgedEndpoint.RouteTableIds, ForProvider.RouteTableIDs)
             /\ DeclaredAmongGroups(ForProvider.SecurityGroupIDs, JudgedEndpoint.Groups)
             /\ PolicyCheck(ForProvider.PolicyDocument, JudgedEndpoint.PolicyDocument))

\* C2 (amended): isUpToDate returns (true, nil) exactly when the observed subnets and
\* route tables have the cardinality of the declared ones and hold no identifier that
\* is not declared, the security groups have one cardinality with every declared one
\* observed, and the policy check passes; else (false, nil).
C2_VerdictIsConjunction ==
    Judged =>
        /\ call.err = NoErr
        /\ call.match =
            (ListsPass
             /\ PolicyCheck(ForProvider.PolicyDocument, JudgedEndpoint.PolicyDocument))

\* C2 witness: a verdict "match" on lists given in different orders
C2_Witness ==
    /\ Judged
    /\ call.match
    /\ Len(ForProvider.SubnetIDs) = 2
    /\ JudgedEndpoint.SubnetIds # ForProvider.SubnetIDs
    /\ Len(ForProvider.SecurityGroupIDs) = 2

\* a result of listCompareStringPtrIsSame
Compared == call.op = "listCompareStringPtrIsSame"

\* C3 (as claimed): lists with equal multisets compare the same; lists of different
\* length, or with an element of either list that the other lacks, do not.
C3_ListEqualityBothWays ==
    Compared =>
        /\ SameMultiset(call.listA, call.listB) => call.same
        /\ Len(call.listA) # Len(call.listB) => ~call.same
        /\ Values(call.listA) # Values(call.listB) => ~call.same

\* C3 (amended): lists with equal multisets compare the same; lists of different
\* length, or with an element of the first list that the second lacks, do not; an
\* element of the second list that the first lacks is noticed when the values of the
\* first list are distinct.
C3_ListEquality ==
    Compared =>
        /\ SameMultiset(call.listA, call.listB) => call.same
        /\ Len(call.listA) # Len(call.listB) => ~call.same
        /\ ~(Values(call.listA) \subseteq Values(call.listB)) => ~call.same
        /\ (Distinct(call.listA) /\ Values(call.listA) # Values(call.listB)) => ~call.same

\* C3 witness: two lists of two distinct values in different orders compared the same
C3_Witness ==
    /\ Compared
    /\ call.same
    /\ Len(call.listA) = 2
    /\ Distinct(call.listA)
    /\ call.listA # call.listB

\* what holds of a declared policy: with the three list checks passed, the verdict is
\* "match" iff the first JSON value read from the observed text is the value read
\* from the declared one (key order and white space aside); text after the first
\* value is not looked at.
DeclaredPolicyFirstValueExact ==
    (Judged /\ ListsPass /\ StringValue(ForProvider.PolicyDocument) # "") =>
        (call.match = SameJson(StringValue(JudgedEndpoint.PolicyDocument),
                               StringValue(ForProvider.PolicyDocument)))

\* a declared policy matched by an observed text that differs from it
DeclaredPolicyMatched ==
    /\ Judged
    /\ ListsPass
    /\ StringValue(ForProvider.PolicyDocument) # ""
    /\ StringValue(JudgedEndpoint.PolicyDocument) # StringValue(ForProvider.PolicyDocument)
    /\ call.match

\* C5: with no declared policy (nil or "") and the three list checks passed, the
\* verdict is "match" iff the observed policy has every node of the default policy,
\* whatever its text; an observed policy that lacks a field of the default is a
\* mismatch.
C5_DefaultPolicySuperset ==
    (Judged /\ ListsPass /\ StringValue(ForProvider.PolicyDocument) = "") =>
        (call.match = IncludesJson(StringValue(JudgedEndpoint.PolicyDocument),
                                   defaultPolicy))

\* C5 witness: no declared policy, and a strict superset of the default observed
C5_Witness ==
    /\ Judged
    /\ ListsPass
    /\ ForProvider.PolicyDocument = Nil
    /\ call.match
    /\ ~SameJson(StringValue(JudgedEndpoint.PolicyDocument), defaultPolicy)

\* the elements of a response that carry the external name
Carriers(name, endpoints) ==
    {i \in DOMAIN endpoints : StringValue(endpoints[i].VpcEndpointId) = name}

\* C6: filterList returns a response of at most one element, the first element of the
\* input whose identifier is the external name of the resource, and an empty
\* response when there is none; the resource is left as it was.
C6_FilterListFirstMatch ==
    [][call'.op = "filterList" =>
        LET in == call'.obj.VpcEndpoints
            out == call'.resp.VpcEndpoints
            hits == Carriers(externalName, in)
        IN  /\ Len(out) <= 1
            /\ hits = {} => out = <<>>
            /\ hits # {} => \E i \in hits : out = <<in[i]>> /\ \A j \in hits : i <= j
            /\ UNCHANGED <<externalName, ForProvider, AtProvider, Conditions>>]_vars

\* C6 witness: two different elements carry the assigned identifier, the first is kept
C6_Witness ==
    /\ call.op = "filterList"
    /\ externalName = "vpce-1"
    /\ Len(call.obj.VpcEndpoints) = 2
    /\ Carriers(externalName, call.obj.VpcEndpoints) = {1, 2}
    /\ call.obj.VpcEndpoints[1] # call.obj.VpcEndpoints[2]
    /\ call.resp.VpcEndpoints = <<call.obj.VpcEndpoints[1]>>

\* C7: postCreate given an error, or a response without a created endpoint, leaves
\* the external name as it was, reports no assignment and returns the error it got.
C7_PostCreateFailure ==
    [][(call'.op = "postCreate"
        /\ (call'.errIn # NoErr \/ call'.obj.VpcEndpoint = NilStruct)) =>
            /\ externalName' = externalName
            /\ assigned' = assigned
            /\ ~call'.cre.ExternalNameAssigned
            /\ call'.err = call'.errIn]_vars

\* C7 witness: a failed create whose response still carries an endpoint
C7_Witness ==
    /\ call.op = "postCreate"
    /\ call.errIn \in Errors
    /\ call.obj.VpcEndpoint # NilStruct
    /\ call.err = call.errIn
    /\ externalName = "my-endpoint"

\* C8: postCreate given no error and a created endpoint sets the external name to the
\* identifier of the endpoint and returns the creation result it was given with the
\* assignment reported, and no error.
C8_PostCreateSuccess ==
    (call.op = "postCreate" /\ call.errIn = NoErr /\ call.obj.VpcEndpoint # NilStruct) =>
        /\ externalName = StringValue(call.obj.VpcEndpoint.VpcEndpointId)
        /\ call.cre.ExternalNameAssigned
        /\ call.cre.ConnectionDetails = call.creIn.ConnectionDetails
        /\ call.err = NoErr

\* C8 witness: the identifier of the response has replaced the name given at first
C8_Witness ==
    /\ call.op = "postCreate"
    /\ call.errIn = NoErr
    /\ call.nameBefore = "my-endpoint"
    /\ externalName = "vpce-2"
    /\ call.cre.ExternalNameAssigned

\* the readiness condition that stands for a lifecycle state
ReadyFor(state) ==
    IF state = "available" THEN Available
    ELSE IF state = "deleting" THEN Deleting
    ELSE IF state = "deleted" THEN Unavailable
    ELSE Creating

\* C9: a postObserve that returns sets the readiness condition to the image of the
\* observed state when the state is one of the five known ones, and leaves every
\* condition as it was otherwise, without an error; no other call touches the
\* conditions.  So the readiness condition is always the image of the last known
\* state observed.
C9_ConditionFollowsState ==
    [][IF call'.op = "postObserve" /\ call'.errIn = NoErr /\ ~call'.panicked
       THEN LET state == StringValue(call'.resp.VpcEndpoints[1].State)
            IN  /\ call'.err = NoErr
                /\ IF state \in LifecycleStates
                   THEN /\ GetCondition(Conditions', "Ready") = ReadyFor(state)
                        /\ GetCondition(Conditions', "Synced")
                             = GetCondition(Conditions, "Synced")
                        /\ Len(Conditions') <= 2
                   ELSE Conditions' = Conditions
       ELSE Conditions' = Conditions]_vars

\* C9 witness: an unknown state observed after a pending one, the resource still
\* Creating
C9_Witness ==
    /\ call.op = "postObserve"
    /\ ~call.panicked
    /\ call.errIn = NoErr
    /\ call.resp.VpcEndpoints[1].State = "rejected"
    /\ GetCondition(Conditions, "Ready") = Creating

\* C10: postObserve given an error changes nothing of the resource, does not look
\* at the response and returns the error it got.
C10_PostObserveError ==
    [][(call'.op = "postObserve" /\ call'.errIn # NoErr) =>
            /\ ~call'.panicked
            /\ call'.err = call'.errIn
            /\ UNCHANGED <<externalName, ForProvider, AtProvider, Conditions, assigned>>]_vars

\* C10 witness: an error with a response after a successful observation, the status
\* still that of the observation
C10_Witness ==
    /\ call.op = "postObserve"
    /\ call.errIn \in Errors
    /\ call.resp # NilStruct
    /\ call.err = call.errIn
    /\ AtProvider # NilStruct
    /\ AtProvider.State = "available"
    /\ GetCondition(Conditions, "Ready") = Available

\* C11 (as claimed): an Observe pass whose Describe succeeds and whose filterList
\* yields a response with no element ends without a crash and without an error, and
\* leaves the status and the conditions as they were.
C11_EmptyObservationIsSafe ==
    [][(/\ call.op = "filterList"
        /\ Len(call.resp.VpcEndpoints) = 0
        /\ call'.op = "postObserve"
        /\ call'.errIn = NoErr
        /\ call'.resp = call.resp) =>
            /\ ~call'.panicked
            /\ call'.err = NoErr
            /\ UNCHANGED <<AtProvider, Conditions>>]_vars

\* C12: delete on a VPCEndpoint sends one DeleteVpcEndpoints request whose identifier
\* list holds the external name of the resource and nothing else, and returns what
\* the client returned; on an object of another kind it sends nothing and returns
\* the unexpected-object error; in both cases the resource is left as it was.
C12_DeleteOneRequest ==
    [][call'.op = "delete" =>
        /\ IF call'.kind = "VPCEndpoint"
           THEN /\ Len(call'.requests) = 1
                /\ call'.requests[1].VpcEndpointIds = <<externalName>>
                /\ call'.err = call'.clientErr
           ELSE /\ call'.requests = <<>>
                /\ call'.err = errUnexpectedObject
        /\ UNCHANGED <<externalName, ForProvider, AtProvider, Conditions, assigned>>]_vars

\* C12 witness: a delete of an observed endpoint that the client refused
C12_Witness ==
    /\ call.op = "delete"
    /\ call.kind = "VPCEndpoint"
    /\ call.clientErr \in Errors
    /\ call.err = call.clientErr
    /\ call.requests = <<[VpcEndpointIds |-> <<"vpce-1">>]>>
    /\ externalName = "vpce-1"
    /\ AtProvider # NilStruct

\* a postObserve that was given no error and returned
ObservedOk == call.op = "postObserve" /\ call.errIn = NoErr /\ ~call.panicked
ObservedEndpoint == call.resp.VpcEndpoints[1]

\* C13 (as claimed): after a successful postObserve the returned connection details
\* hold the endpoint key with the name of the first DNS entry, and nothing else, iff
\* the observed endpoint has a DNS entry and the name of the first is not empty;
\* otherwise they are empty; no error is returned.
C13_ConnectionDetails ==
    ObservedOk =>
        LET dns == ObservedEndpoint.DnsEntries
            named == Len(dns) >= 1 /\ StringValue(dns[1].DnsName) # ""
            details == call.obs.ConnectionDetails
        IN  /\ call.err = NoErr
            /\ named => details = (ResourceCredentialsSecretEndpointKey :> dns[1].DnsName)
            /\ ~named => details = <<>>
            /\ named <=> ResourceCredentialsSecretEndpointKey \in DOMAIN details

\* C13 (amended): after a successful postObserve the returned connection details
\* are the endpoint key with the name of the first DNS entry, and nothing else, when
\* the observed endpoint has a DNS entry and the name of the first is not empty;
\* otherwise they are the connection details of the observation handed in, unchanged
\* (empty when those were empty); no error is returned.
C13_ConnectionDetailsOrGiven ==
    ObservedOk =>
        LET dns == ObservedEndpoint.DnsEntries
            named == Len(dns) >= 1 /\ StringValue(dns[1].DnsName) # ""
            details == call.obs.ConnectionDetails
        IN  /\ call.err = NoErr
            /\ named => details = (ResourceCredentialsSecretEndpointKey :> dns[1].DnsName)
            /\ ~named => details = call.obsIn.ConnectionDetails
            /\ (~named /\ call.obsIn.ConnectionDetails = <<>>) => details = <<>>

\* C13 witness: an endpoint without a named DNS entry observed with an observation
\* that carries connection details; they are returned as they were
C13_Witness ==
    /\ ObservedOk
    /\ Len(ObservedEndpoint.DnsEntries) = 1
    /\ ObservedEndpoint.DnsEntries[1].DnsName = Nil
    /\ call.obsIn.ConnectionDetails # <<>>
    /\ call.obs.ConnectionDetails = call.obsIn.ConnectionDetails

\* C13 witness, the named side: of two DNS entries the first one replaces the
\* connection details handed in
C13_WitnessNamed ==
    /\ ObservedOk
    /\ ObservedEndpoint.DnsEntries = <<Dns2, Dns1>>
    /\ call.obsIn.ConnectionDetails # <<>>
    /\ call.obs.ConnectionDetails = (ResourceCredentialsSecretEndpointKey :> Dns2.DnsName)

\* C13 witness, the empty side: a first DNS entry with an empty name and an
\* observation without details give no detail
C13_WitnessUnnamed ==
    /\ ObservedOk
    /\ Len(ObservedEndpoint.DnsEntries) = 1
    /\ ObservedEndpoint.DnsEntries[1].DnsName = ""
    /\ call.obsIn.ConnectionDetails = <<>>
    /\ call.obs.ConnectionDetails = <<>>

\* a create request shaped by preCreate
Shaped == call.op = "preCreate"

\* C14: preCreate adds to the create request one tag specification of resource type
\* vpc-endpoint, holding one tag "Name" whose value is the external name of the
\* resource, keeps the tag specifications the request had, in their places, and
\* returns no error.
C14_NameTagAdded ==
    Shaped =>
        LET before == call.obj.TagSpecifications
            after == call.request.TagSpecifications
            added == after[Len(after)]
        IN  /\ Len(after) = Len(before) + 1
            /\ \A i \in DOMAIN before : after[i] = before[i]
            /\ added.ResourceType = "vpc-endpoint"
            /\ Len(added.Tags) = 1
            /\ added.Tags[1].Key = "Name"
            /\ added.Tags[1].Value = externalName
            /\ call.err = NoErr

\* C14 witness: a request that had two tag specifications, one of them a Name tag,
\* has three, the last one naming the resource
C14_Witness ==
    /\ Shaped
    /\ externalName = "my-endpoint"
    /\ Len(call.obj.TagSpecifications) = 2
    /\ Len(call.request.TagSpecifications) = 3
    /\ call.request.TagSpecifications[1].Tags[1].Value = "old-name"
    /\ call.request.TagSpecifications[3].Tags[1].Value = "my-endpoint"

\* what preCreate makes of one list of the request, given the declared list
ListShaped(declared, before, after) ==
    /\ Len(declared) = 0 => (after.isNil /\ after # Slice(<<>>))
    /\ Len(declared) # 0 => after = before

\* C15: after preCreate, each of the subnets, the route tables and the security
\* groups of the request is nil (never an empty list) when the declared list is
\* nil or empty, and as it was when the declared list is not empty.
C15_EmptyListsAbsent ==
    Shaped =>
        /\ ListShaped(ForProvider.SubnetIDs, call.obj.SubnetIds, call.request.SubnetIds)
        /\ ListShaped(ForProvider.RouteTableIDs, call.obj.RouteTableIds,
                      call.request.RouteTableIds)
        /\ ListShaped(ForProvider.SecurityGroupIDs, call.obj.SecurityGroupIds,
                      call.request.SecurityGroupIds)

\* C15 witness: no subnets declared and an empty list on the request, which is made
\* nil, beside declared security groups, whose list is kept
C15_Witness ==
    /\ Shaped
    /\ ForProvider.SubnetIDs = <<>>
    /\ call.obj.SubnetIds = Slice(<<>>)
    /\ call.request.SubnetIds = NilSlice
    /\ ForProvider.SecurityGroupIDs = <<"sg-1">>
    /\ call.request.SecurityGroupIds = Slice(<<"sg-1">>)

\* an update request shaped by formatModifyVpcEndpointInput
Formatted == call.op = "formatModifyVpcEndpointInput"

\* a delta after shaping: nil when it was empty, as it was otherwise
DeltaShaped(before, after) ==
    /\ Len(before.elems) = 0 => after.isNil
    /\ Len(before.elems) # 0 => after = before

\* a policy text that is nil, empty or white space only
BlankPolicy(p) ==
    \A i \in DOMAIN Bytes(StringValue(p)) : Bytes(StringValue(p))[i] \in TrimmedSpace

\* C16: after formatModifyVpcEndpointInput each of the six add and remove deltas is
\* nil when it was empty and as it was otherwise, the policy document is nil when it
\* was nil, empty or white space only and as it was otherwise; shaping the shaped
\* request again changes nothing.
C16_ModifyRequestShaped ==
    Formatted =>
        /\ DeltaShaped(call.obj.AddSecurityGroupIds, call.request.AddSecurityGroupIds)
        /\ DeltaShaped(call.obj.RemoveSecurityGroupIds, call.request.RemoveSecurityGroupIds)
        /\ DeltaShaped(call.obj.AddRouteTableIds, call.request.AddRouteTableIds)
        /\ DeltaShaped(call.obj.RemoveRouteTableIds, call.request.RemoveRouteTableIds)
        /\ DeltaShaped(call.obj.AddSubnetIds, call.request.AddSubnetIds)
        /\ DeltaShaped(call.obj.RemoveSubnetIds, call.request.RemoveSubnetIds)
        /\ BlankPolicy(call.obj.PolicyDocument) => call.request.PolicyDocument = Nil
        /\ ~BlankPolicy(call.obj.PolicyDocument) =>
                call.request.PolicyDocument = call.obj.PolicyDocument
        /\ call.again = call.request

\* C16 witness: an empty delta and a policy of white space are dropped, a delta with
\* identifiers is kept
C16_Witness ==
    /\ Formatted
    /\ call.obj.AddSecurityGroupIds = Slice(<<>>)
    /\ call.request.AddSecurityGroupIds = NilSlice
    /\ call.obj.AddSubnetIds = Slice(<<Nil, "subnet-1">>)
    /\ call.request.AddSubnetIds = call.obj.AddSubnetIds
    /\ call.obj.PolicyDocument = WhitespaceText
    /\ call.request.PolicyDocument = Nil

\* C16 witness, the other side: a document with white space around it is kept as it is
C16_WitnessPadded ==
    /\ Formatted
    /\ call.obj.PolicyDocument = PaddedObject
    /\ call.request.PolicyDocument = PaddedObject

\* C17: the status of the resource (the observed fields and the conditions) changes
\* only in a postObserve that was given no error; preCreate, postCreate, filterList,
\* isUpToDate, delete and a postObserve given an error leave it as it was.
C17_StatusWrittenOnlyByPostObserve ==
    [][(call'.op # "postObserve" \/ call'.errIn # NoErr) =>
            (AtProvider' = AtProvider /\ Conditions' = Conditions)]_vars

\* C17 witness: a verdict of isUpToDate on a resource observed as pending, its
\* status still that of the observation
C17_Witness ==
    /\ call.op = "isUpToDate"
    /\ ~call.panicked
    /\ AtProvider # NilStruct
    /\ AtProvider.State = "pending"
    /\ GetCondition(Conditions, "Ready") = Creating

\* C18: after a successful postObserve the observed fields of the status are those
\* of the endpoint just observed and nothing else: its state, its DNS entries as
\* pairs of name and hosted zone in the observed order, its creation timestamp;
\* nothing of the status before the call is left in them.
C18_StatusRebuilt ==
    ObservedOk =>
        /\ DOMAIN AtProvider = {"State", "DNSEntries", "CreationTimestamp"}
        /\ AtProvider.State = ObservedEndpoint.State
        /\ AtProvider.CreationTimestamp = [Time |-> ObservedEndpoint.CreationTimestamp]
        /\ Len(AtProvider.DNSEntries) = Len(ObservedEndpoint.DnsEntries)
        /\ \A i \in DOMAIN ObservedEndpoint.DnsEntries :
                AtProvider.DNSEntries[i] =
                    [DNSName |-> ObservedEndpoint.DnsEntries[i].DnsName,
                     HostedZoneID |-> ObservedEndpoint.DnsEntries[i].HostedZoneId]

\* C18 witness: an endpoint observed without DNS entries and with another timestamp
\* after one observed with two entries; no entry is left in the status
C18_Witness ==
    /\ ObservedOk
    /\ call.before.AtProvider # NilStruct
    /\ Len(call.before.AtProvider.DNSEntries) = 2
    /\ call.before.AtProvider.CreationTimestamp = [Time |-> Timestamp1]
    /\ call.before.AtProvider.State = "available"
    /\ AtProvider.DNSEntries = <<>>
    /\ AtProvider.CreationTimestamp = [Time |-> Timestamp2]
    /\ AtProvider.State = "pending"

\* the orders a list can be given in
Reorderings(list) ==
    {[i \in DOMAIN list |-> list[p[i]]] : p \in Permutations(DOMAIN list)}
GroupIds(groups) == [i \in DOMAIN groups |-> groups[i].GroupId]

\* the verdict on other declared parameters, or on another observed endpoint, is
\* the verdict that was returned
SameVerdict(fp, ep) ==
    LET r == isUpToDate(fp, DescribeVpcEndpointsOutput(<<ep>>))
    IN  ~r.panicked /\ r.match = call.match /\ r.err = call.err

\* the six lists compared hold no identifier twice
UniqueIdentifiers ==
    /\ Distinct(ForProvider.SubnetIDs) /\ Distinct(JudgedEndpoint.SubnetIds)
    /\ Distinct(ForProvider.RouteTableIDs) /\ Distinct(JudgedEndpoint.RouteTableIds)
    /\ Distinct(ForProvider.SecurityGroupIDs)
    /\ Distinct(GroupIds(JudgedEndpoint.Groups))

\* C19: on lists without repeated identifiers, the verdict of isUpToDate is the
\* same for every order of the declared subnets, route tables and security groups
\* and for every order of the observed subnets, route tables and groups.
C19_VerdictIgnoresOrder ==
    (Judged /\ UniqueIdentifiers) =>
        LET fp == ForProvider
            ep == JudgedEndpoint
        IN  /\ \A q \in Reorderings(fp.SubnetIDs) :
                    SameVerdict([fp EXCEPT !.SubnetIDs = q], ep)
            /\ \A q \in Reorderings(fp.RouteTableIDs) :
                    SameVerdict([fp EXCEPT !.RouteTableIDs = q], ep)
            /\ \A q \in Reorderings(fp.SecurityGroupIDs) :
                    SameVerdict([fp EXCEPT !.SecurityGroupIDs = q], ep)
            /\ \A q \in Reorderings(ep.SubnetIds) :
                    SameVerdict(fp, [ep EXCEPT !.SubnetIds = q])
            /\ \A q \in Reorderings(ep.RouteTableIds) :
                    SameVerdict(fp, [ep EXCEPT !.RouteTableIds = q])
            /\ \A q \in Reorderings(ep.Groups) :
                    SameVerdict(fp, [ep EXCEPT !.Groups = q])

\* C19 witness: a match on two subnets and two security groups, the subnets observed
\* in the order opposite to the declared one
C19_Witness ==
    /\ Judged
    /\ UniqueIdentifiers
    /\ call.match
    /\ ForProvider.SubnetIDs = <<"subnet-1", "subnet-2">>
    /\ JudgedEndpoint.SubnetIds = <<"subnet-2", "subnet-1">>
    /\ GroupIds(JudgedEndpoint.Groups) = <<"sg-2", "sg-1">>
    /\ JudgedEndpoint.RouteTableIds = <<"rtb-1">>

\* json.Valid: the whole text is one JSON value, with nothing but white space
\* around it
WellFormed(text) ==
    LET toks == SkipSpace(Bytes(text))
        d == DecodeValue(toks, 1)
    IN  d.ok /\ d.next = Len(toks) + 1

\* the two documents isUpToDate compares: the observed one, and the declared one or
\* the default
ComparedUpstream == StringValue(JudgedEndpoint.PolicyDocument)
ComparedOther ==
    IF StringValue(ForProvider.PolicyDocument) = "" THEN defaultPolicy
    ELSE StringValue(ForProvider.PolicyDocument)

\* C20 (as claimed): isUpToDate returns no error, whatever the declared parameters
\* and the observed endpoint; and when one of the two policy documents it compares
\* is not well-formed JSON the verdict is "mismatch".
C20_MalformedPolicyMismatch ==
    Judged =>
        /\ call.err = NoErr
        /\ (~WellFormed(ComparedUpstream) \/ ~WellFormed(ComparedOther)) => ~call.match

\* the part of C20 that holds: no error is returned, and a document of which no
\* first JSON value can be read gives a mismatch
C20_UnreadablePolicyMismatch ==
    Judged =>
        /\ call.err = NoErr
        /\ (~IsJson(ComparedUpstream) \/ ~IsJson(ComparedOther)) => ~call.match

\* a text is the same JSON document as another: both are well-formed JSON and have
\* the same nodes
SameDocument(a, b) == WellFormed(a) /\ WellFormed(b) /\ NodesOf(a) = NodesOf(b)

\* C4 (as claimed): with a declared policy and the three list checks passed, the
\* verdict is "match" if and only if the observed policy is the same JSON document as
\* the declared one (key order and white space aside); a superset, a subset or any
\* other text is a mismatch.
C4_DeclaredPolicyExact ==
    (Judged /\ ListsPass /\ StringValue(ForProvider.PolicyDocument) # "") =>
        (call.match = SameDocument(StringValue(JudgedEndpoint.PolicyDocument),
                                   StringValue(ForProvider.PolicyDocument)))
====
